---- MODULE Spec2Model ----
(***************************************************************************)
(* Org chart: a flat collection of employee records with a manager         *)
(* reference, the tree helpers over it (buildTree, filterEmployees,        *)
(* getAllReports, wouldCreateCircularReference), the employee reducer and  *)
(* the drag-and-drop re-parenting flow with its asynchronous PATCH.        *)
(***************************************************************************)
EXTENDS Integers, Sequences, FiniteSets, TLC

\* ------------------------------------------------------------------ bounds

\* Number of seed employees loaded from the server (the first NumEmp rows).
NumEmp == 3

\* PATCH requests that may be awaiting their response at the same time.
MaxInflight == 2

\* Pure-function inputs: collections of at most MaxLen records, ids 1..MaxId.
MaxLen == 3

MaxId == 3

\* The getAllReports loop is followed until its reports array holds
\* MaxReports records (a loop that never ends is cut off there).
MaxReports == 6

\* ------------------------------------------------------------------ values

\* managerId: null (the chief executive has no manager).
Null == 0

\* JavaScript strings are sequences of one-character strings.
Upper ==
  <<"A","B","C","D","E","F","G","H","I","J","K","L","M",
    "N","O","P","Q","R","S","T","U","V","W","X","Y","Z">>

LowerLetters ==
  <<"a","b","c","d","e","f","g","h","i","j","k","l","m",
    "n","o","p","q","r","s","t","u","v","w","x","y","z">>

Digits == <<"0","1","2","3","4","5","6","7","8","9">>

\* String.prototype.toLowerCase, one character.
LowerChar(c) ==
  IF \E i \in 1..Len(Upper) : Upper[i] = c
    THEN LowerLetters[CHOOSE i \in 1..Len(Upper) : Upper[i] = c]
    ELSE c

\* String.prototype.toLowerCase
toLowerCase(s) == [i \in 1..Len(s) |-> LowerChar(s[i])]

\* String.prototype.includes: term occurs in s as a contiguous substring.
includes(s, term) ==
  \E k \in 0..(Len(s) - Len(term)) :
    \A j \in 1..Len(term) : s[k + j] = term[j]

RECURSIVE toString(_)
\* Number.prototype.toString for a non-negative integer (decimal digits).
toString(n) ==
  IF n < 10 THEN <<Digits[n + 1]>>
  ELSE toString(n \div 10) \o <<Digits[(n % 10) + 1]>>

\* The ids of a sequence of records: employees.map(emp => emp.id)
Ids(emps) == [i \in 1..Len(emps) |-> emps[i].id]

\* The set of ids occurring in a collection.
IdSet(emps) == {emps[i].id : i \in 1..Len(emps)}

\* The elements of a sequence, as a set.
Range(s) == {s[i] : i \in 1..Len(s)}

\* ------------------------------------------------------------------ seed

SeedRows ==
  <<
     [id |-> 1, name |-> <<"M","a","r","k"," ","H","i","l","l">>,
      designation |-> <<"C","h","i","e","f"," ","E","x","e","c","u","t","i","v","e"," ","O","f","f","i","c","e","r">>,
      team |-> <<"E","x","e","c","u","t","i","v","e">>, managerId |-> Null],
     [id |-> 2, name |-> <<"J","o","e"," ","L","i","n","u","x">>,
      designation |-> <<"C","h","i","e","f"," ","T","e","c","h","n","o","l","o","g","y"," ","O","f","f","i","c","e","r">>,
      team |-> <<"T","e","c","h","n","o","l","o","g","y">>, managerId |-> 1],
     [id |-> 3, name |-> <<"L","i","n","d","a"," ","M","a","y">>,
      designation |-> <<"C","h","i","e","f"," ","B","u","s","i","n","e","s","s"," ","O","f","f","i","c","e","r">>,
      team |-> <<"B","u","s","i","n","e","s","s">>, managerId |-> 1],
     [id |-> 4, name |-> <<"J","o","h","n"," ","G","r","e","e","n">>,
      designation |-> <<"C","h","i","e","f"," ","A","c","c","o","u","n","t","i","n","g"," ","O","f","f","i","c","e","r">>,
      team |-> <<"F","i","n","a","n","c","e">>, managerId |-> 1],
     [id |-> 5, name |-> <<"R","o","n"," ","B","l","o","m","q","u","i","s","t">>,
      designation |-> <<"C","h","i","e","f"," ","I","n","f","o","r","m","a","t","i","o","n"," ","S","e","c","u","r","i","t","y"," ","O","f","f","i","c","e","r">>,
      team |-> <<"S","e","c","u","r","i","t","y">>, managerId |-> 2],
     [id |-> 6, name |-> <<"M","i","c","h","a","e","l"," ","R","u","b","i","n">>,
      designation |-> <<"C","h","i","e","f"," ","I","n","n","o","v","a","t","i","o","n"," ","O","f","f","i","c","e","r">>,
      team |-> <<"I","n","n","o","v","a","t","i","o","n">>, managerId |-> 2],
     [id |-> 7, name |-> <<"A","l","i","c","e"," ","L","o","p","e","z">>,
      designation |-> <<"C","h","i","e","f"," ","C","o","m","m","u","n","i","c","a","t","i","o","n","s"," ","O","f","f","i","c","e","r">>,
      team |-> <<"C","o","m","m","u","n","i","c","a","t","i","o","n","s">>, managerId |-> 3],
     [id |-> 8, name |-> <<"M","a","r","y"," ","J","o","h","n","s","o","n">>,
      designation |-> <<"C","h","i","e","f"," ","B","r","a","n","d"," ","O","f","f","i","c","e","r">>,
      team |-> <<"M","a","r","k","e","t","i","n","g">>, managerId |-> 3],
     [id |-> 9, name |-> <<"K","i","r","k"," ","D","o","u","g","l","a","s">>,
      designation |-> <<"C","h","i","e","f"," ","B","u","s","i","n","e","s","s"," ","D","e","v","e","l","o","p","m","e","n","t"," ","O","f","f","i","c","e","r">>,
      team |-> <<"B","u","s","i","n","e","s","s"," ","D","e","v","e","l","o","p","m","e","n","t">>, managerId |-> 3],
     [id |-> 10, name |-> <<"E","r","i","c","a"," ","R","e","e","l">>,
      designation |-> <<"C","h","i","e","f"," ","C","u","s","t","o","m","e","r"," ","O","f","f","i","c","e","r">>,
      team |-> <<"C","u","s","t","o","m","e","r"," ","S","u","c","c","e","s","s">>, managerId |-> 4],
     [id |-> 11, name |-> <<"S","a","r","a","h"," ","C","o","n","n","o","r">>,
      designation |-> <<"S","e","n","i","o","r"," ","S","e","c","u","r","i","t","y"," ","E","n","g","i","n","e","e","r">>,
      team |-> <<"S","e","c","u","r","i","t","y">>, managerId |-> 5],
     [id |-> 12, name |-> <<"J","a","m","e","s"," ","W","i","l","s","o","n">>,
      designation |-> <<"P","r","o","d","u","c","t"," ","I","n","n","o","v","a","t","i","o","n"," ","L","e","a","d">>,
      team |-> <<"I","n","n","o","v","a","t","i","o","n">>, managerId |-> 6],
     [id |-> 13, name |-> <<"E","m","m","a"," ","D","a","v","i","s">>,
      designation |-> <<"C","o","m","m","u","n","i","c","a","t","i","o","n","s"," ","M","a","n","a","g","e","r">>,
      team |-> <<"C","o","m","m","u","n","i","c","a","t","i","o","n","s">>, managerId |-> 7],
     [id |-> 14, name |-> <<"R","o","b","e","r","t"," ","B","r","o","w","n">>,
      designation |-> <<"B","r","a","n","d"," ","S","t","r","a","t","e","g","y"," ","D","i","r","e","c","t","o","r">>,
      team |-> <<"M","a","r","k","e","t","i","n","g">>, managerId |-> 8],
     [id |-> 15, name |-> <<"L","i","s","a"," ","A","n","d","e","r","s","o","n">>,
      designation |-> <<"B","u","s","i","n","e","s","s"," ","D","e","v","e","l","o","p","m","e","n","t"," ","M","a","n","a","g","e","r">>,
      team |-> <<"B","u","s","i","n","e","s","s"," ","D","e","v","e","l","o","p","m","e","n","t">>, managerId |-> 9],
     [id |-> 16, name |-> <<"D","a","v","i","d"," ","M","a","r","t","i","n","e","z">>,
      designation |-> <<"C","u","s","t","o","m","e","r"," ","S","u","c","c","e","s","s"," ","M","a","n","a","g","e","r">>,
      team |-> <<"C","u","s","t","o","m","e","r"," ","S","u","c","c","e","s","s">>, managerId |-> 10]
  >>

\* The collection GET /api/employees returns: schema.employees.all().
Seed == SubSeq(SeedRows, 1, NumEmp)

\* The collection the tree helper tests run on: a chief executive, two
\* officers under it, a lead under the second and a developer under the lead.
mockEmployees ==
  <<
     [id |-> 1, name |-> <<"C","E","O">>,
      designation |-> <<"C","h","i","e","f"," ","E","x","e","c","u","t","i","v","e"," ","O","f","f","i","c","e","r">>,
      team |-> <<"E","x","e","c","u","t","i","v","e">>, managerId |-> Null],
     [id |-> 2, name |-> <<"C","T","O">>,
      designation |-> <<"C","h","i","e","f"," ","T","e","c","h","n","o","l","o","g","y"," ","O","f","f","i","c","e","r">>,
      team |-> <<"T","e","c","h","n","o","l","o","g","y">>, managerId |-> 1],
     [id |-> 3, name |-> <<"C","F","O">>,
      designation |-> <<"C","h","i","e","f"," ","F","i","n","a","n","c","i","a","l"," ","O","f","f","i","c","e","r">>,
      team |-> <<"F","i","n","a","n","c","e">>, managerId |-> 1],
     [id |-> 4, name |-> <<"D","e","v"," ","L","e","a","d">>,
      designation |-> <<"D","e","v","e","l","o","p","m","e","n","t"," ","L","e","a","d">>,
      team |-> <<"T","e","c","h","n","o","l","o","g","y">>, managerId |-> 2],
     [id |-> 5, name |-> <<"S","e","n","i","o","r"," ","D","e","v">>,
      designation |-> <<"S","e","n","i","o","r"," ","D","e","v","e","l","o","p","e","r">>,
      team |-> <<"T","e","c","h","n","o","l","o","g","y">>, managerId |-> 4]
  >>

\* ------------------------------------------------------------ tree helpers

\* employeeMap after the first pass: the keys, and the record a key holds
\* (Map.set overwrites, so the last record with an id wins the slot).
MapKeys(employees) == IdSet(employees)

MapGet(employees, k) ==
  employees[CHOOSE i \in 1..Len(employees) :
              /\ employees[i].id = k
              /\ \A j \in (i + 1)..Len(employees) : employees[j].id # k]

\* A mistaken variant: the children array is replaced, not pushed to, so a
\* node keeps only the report attached last.
ChildKeysLastOnly(employees, k) ==
  LET all == Ids(SelectSeq(employees,
                   LAMBDA emp : emp.managerId # Null /\ emp.managerId = k))
  IN IF Len(all) = 0 THEN all ELSE <<all[Len(all)]>>

\* A mistaken variant: a report is put in front of the children array
\* (unshift), so the children come out in reverse input order.
ChildKeysReversed(employees, k) ==
  LET all == Ids(SelectSeq(employees,
                   LAMBDA emp : emp.managerId # Null /\ emp.managerId = k))
  IN [p \in 1..Len(all) |-> all[Len(all) + 1 - p]]

\* Second pass, else-branch: the nodes pushed to the children of the node
\* held under key k, in input order.  A node is named by its map key.
ChildKeys(employees, k) ==
  Ids(SelectSeq(employees,
        LAMBDA emp : emp.managerId # Null /\ emp.managerId = k))

\* A mistaken variant: a record whose manager is missing is dropped.
RootKeysNullOnly(employees) ==
  Ids(SelectSeq(employees, LAMBDA emp : emp.managerId = Null))

\* Second pass: the nodes pushed to roots, in input order.
RootKeys(employees) ==
  Ids(SelectSeq(employees,
        LAMBDA emp : \/ emp.managerId = Null
                     \/ emp.managerId \notin MapKeys(employees)))

\* buildTree: the root list and the node objects.  Nodes are shared by
\* reference in the source, so a node is referred to by its map key and
\* nodes[k].children lists the keys of the nodes pushed to it.
buildTree(employees) ==
  IF Len(employees) = 0
    THEN [roots |-> <<>>, nodes |-> <<>>]
    ELSE [roots |-> RootKeys(employees),
          nodes |-> [k \in MapKeys(employees) |->
                       [id          |-> MapGet(employees, k).id,
                        name        |-> MapGet(employees, k).name,
                        designation |-> MapGet(employees, k).designation,
                        team        |-> MapGet(employees, k).team,
                        managerId   |-> MapGet(employees, k).managerId,
                        children    |-> ChildKeys(employees, k)]]]

\* A filter argument that was not passed (undefined).
Undefined == <<"undefined">>

\* A mistaken variant: only a missing argument skips its filter, the
\* empty string is applied as a filter.
TruthyUnlessUndefined(v) == v # Undefined

\* if (searchTerm), if (selectedTeam): the empty string and undefined are
\* falsy and skip the filter.
Truthy(v) == v # <<>> /\ v # Undefined

\* A mistaken variant: the search term is compared as typed.
lowerTermAsTyped(searchTerm) == searchTerm

\* const term = searchTerm.toLowerCase()
lowerTerm(searchTerm) == toLowerCase(searchTerm)

\* A mistaken variant: the id is not searched.
MatchesSearchNoId(emp, term) ==
  \/ includes(toLowerCase(emp.name), term)
  \/ includes(toLowerCase(emp.designation), term)
  \/ includes(toLowerCase(emp.team), term)

\* The predicate of the search filter: the lowered term occurs in the
\* lowered name, designation or team, or in the id's decimal digits.
MatchesSearch(emp, term) ==
  \/ includes(toLowerCase(emp.name), term)
  \/ includes(toLowerCase(emp.designation), term)
  \/ includes(toLowerCase(emp.team), term)
  \/ includes(toString(emp.id), term)

\* A mistaken variant: the team is compared without regard to case.
TeamIsIgnoringCase(emp, selectedTeam) ==
  toLowerCase(emp.team) = toLowerCase(selectedTeam)

\* The predicate of the team filter: emp.team === selectedTeam.
TeamIs(emp, selectedTeam) == emp.team = selectedTeam

\* filterEmployees: search term over name, designation, team and id, then
\* the exact team match; a falsy argument skips its filter.
filterEmployees(employees, searchTerm, selectedTeam) ==
  LET bySearch ==
        IF Truthy(searchTerm)
          THEN SelectSeq(employees,
                 LAMBDA emp : MatchesSearch(emp, lowerTerm(searchTerm)))
          ELSE employees
  IN IF Truthy(selectedTeam)
       THEN SelectSeq(bySearch, LAMBDA emp : TeamIs(emp, selectedTeam))
       ELSE bySearch

\* The UTF-16 code unit of a character (space, digits, letters).
CharCode(c) ==
  IF c = " " THEN 32
  ELSE IF \E i \in 1..Len(Digits) : Digits[i] = c
    THEN 47 + (CHOOSE i \in 1..Len(Digits) : Digits[i] = c)
  ELSE IF \E i \in 1..Len(Upper) : Upper[i] = c
    THEN 64 + (CHOOSE i \in 1..Len(Upper) : Upper[i] = c)
  ELSE 96 + (CHOOSE i \in 1..Len(LowerLetters) : LowerLetters[i] = c)

RECURSIVE StringLess(_, _)
\* The default comparison of Array.prototype.sort: strings are compared
\* code unit by code unit, a proper prefix comes first.
StringLess(a, b) ==
  IF Len(b) = 0 THEN FALSE
  ELSE IF Len(a) = 0 THEN TRUE
  ELSE IF a[1] # b[1] THEN CharCode(a[1]) < CharCode(b[1])
  ELSE StringLess(Tail(a), Tail(b))

RECURSIVE SetOf(_)
\* new Set(values), as Array.from lists it: the values in the order they
\* first occur.
SetOf(values) ==
  IF Len(values) = 0 THEN <<>>
  ELSE LET before == SetOf(SubSeq(values, 1, Len(values) - 1))
           v == values[Len(values)]
       IN IF v \in Range(before) THEN before ELSE Append(before, v)

\* A mistaken variant: the labels are returned in the order they first
\* occur, not sorted.
getUniqueTeamsUnsorted(employees) ==
  SetOf([i \in 1..Len(employees) |-> employees[i].team])

\* getUniqueTeams: Array.from(new Set(employees.map(emp => emp.team))).sort()
getUniqueTeams(employees) ==
  SortSeq(SetOf([i \in 1..Len(employees) |-> employees[i].team]), StringLess)


\* One round of the manager relation: the ids of the records managed by
\* some id in S.
ReportIds(employees, S) ==
  {employees[i].id : i \in {j \in 1..Len(employees) :
                               employees[j].managerId \in S}}

RECURSIVE ReportClosure(_, _, _)
\* The ids reached from `frontier` in one or more steps, added to `acc`.
ReportClosure(employees, frontier, acc) ==
  LET next == ReportIds(employees, frontier) \ acc
  IN IF next = {} THEN acc
     ELSE ReportClosure(employees, next, acc \cup next)

\* The ids that enter getAllReports' queue after the start id.
Queued(employees, managerId) ==
  ReportClosure(employees, {managerId}, {})

\* getAllReports' while loop never empties its queue exactly when the ids
\* it dequeues include one that is queued again below itself.
Diverges(employees, managerId) ==
  \E c \in Queued(employees, managerId) \cup {managerId} :
    c \in Queued(employees, c)

RECURSIVE BFSPrepend(_, _, _)
\* A mistaken variant: the direct reports are put in front of reports
\* (unshift), so a lower level comes out before the level above it.
BFSPrepend(employees, queue, reports) ==
  IF Len(queue) = 0 THEN reports
  ELSE LET currentId == Head(queue)
           directReports ==
             SelectSeq(employees, LAMBDA emp : emp.managerId = currentId)
       IN BFSPrepend(employees, Tail(queue) \o Ids(directReports),
                     directReports \o reports)

RECURSIVE BFS(_, _, _)
\* The while loop of getAllReports: shift the queue, filter the direct
\* reports, push them to reports and their ids to the queue.
BFS(employees, queue, reports) ==
  IF Len(queue) = 0 THEN reports
  ELSE LET currentId == Head(queue)
           directReports ==
             SelectSeq(employees, LAMBDA emp : emp.managerId = currentId)
       IN BFS(employees, Tail(queue) \o Ids(directReports),
              reports \o directReports)

\* getAllReports (defined where the loop terminates).
getAllReports(employees, managerId) == BFS(employees, <<managerId>>, <<>>)

\* A mistaken variant: only the self-reference is refused.
wouldCreateCircularReferenceSelfOnly(employees, employeeId, newManagerId) ==
  employeeId = newManagerId

\* A mistaken variant: only the direct reports are searched.
wouldCreateCircularReferenceDirect(employees, employeeId, newManagerId) ==
  IF employeeId = newManagerId THEN TRUE
  ELSE \E i \in 1..Len(employees) :
         /\ employees[i].managerId = employeeId
         /\ employees[i].id = newManagerId

\* A mistaken variant: the employee's present manager is refused as well.
wouldCreateCircularReferenceOrPresentManager(employees, employeeId, newManagerId) ==
  IF employeeId = newManagerId THEN TRUE
  ELSE LET allReports == getAllReports(employees, employeeId)
       IN \/ \E i \in 1..Len(allReports) : allReports[i].id = newManagerId
          \/ \E i \in 1..Len(employees) :
               /\ employees[i].id = employeeId
               /\ employees[i].managerId = newManagerId

\* A mistaken variant: a new manager that is not in the collection is
\* refused as well.
wouldCreateCircularReferenceUnknownManager(employees, employeeId, newManagerId) ==
  IF employeeId = newManagerId THEN TRUE
  ELSE LET allReports == getAllReports(employees, employeeId)
       IN \/ \E i \in 1..Len(allReports) : allReports[i].id = newManagerId
          \/ \A i \in 1..Len(employees) : employees[i].id # newManagerId

\* wouldCreateCircularReference (defined where getAllReports terminates).
wouldCreateCircularReference(employees, employeeId, newManagerId) ==
  IF employeeId = newManagerId THEN TRUE
  ELSE LET allReports == getAllReports(employees, employeeId)
       IN \E i \in 1..Len(allReports) : allReports[i].id = newManagerId


\* findEmployeeById: employees.find(emp => emp.id === id) || null
findEmployeeById(employees, id) ==
  IF \E i \in 1..Len(employees) : employees[i].id = id
    THEN employees[CHOOSE i \in 1..Len(employees) :
                     /\ employees[i].id = id
                     /\ \A j \in 1..(i - 1) : employees[j].id # id]
    ELSE Null

\* A mistaken variant: the first pass puts the records themselves in the
\* map (emp.children = []), so the second pass pushes the children onto the
\* caller's records.
employeesAfterBuildTreeShared(employees) ==
  [i \in 1..Len(employees) |->
     [id          |-> employees[i].id,
      name        |-> employees[i].name,
      designation |-> employees[i].designation,
      team        |-> employees[i].team,
      managerId   |-> employees[i].managerId,
      children    |-> ChildKeys(employees, employees[i].id)]]

\* The caller's array after buildTree(employees): the first pass stores a
\* copy of every record ({ ...emp, children: [] }), the second pass pushes
\* to roots and to the children of those copies; nothing is written to
\* employees or its records.
employeesAfterBuildTree(employees) == employees

\* The caller's array after filterEmployees: the function works on the copy
\* [...employees] and Array.filter returns new arrays.
employeesAfterFilterEmployees(employees) == employees

\* The caller's array after getUniqueTeams: map gives a new array, and
\* sort() sorts the array made by Array.from(teams) in place.
employeesAfterGetUniqueTeams(employees) == employees

\* The caller's array after findEmployeeById: Array.find only reads.
employeesAfterFindEmployeeById(employees) == employees

\* The caller's array after getAllReports (and so after
\* wouldCreateCircularReference): shift and push act on queue and reports,
\* Array.filter and Array.some only read employees.
employeesAfterGetAllReports(employees) == employees

\* The keys of the nodes TreeNode renders: those reached from the root list
\* through children (tree.map over the roots, children.map below them).
RECURSIVE ReachKeys(_, _, _)
ReachKeys(tree, frontier, acc) ==
  LET next == UNION {Range(tree.nodes[k].children) : k \in frontier} \ acc
  IN IF next = {} THEN acc
     ELSE ReachKeys(tree, next, acc \cup next)

TreeKeys(tree) == ReachKeys(tree, Range(tree.roots), Range(tree.roots))

\* ------------------------------------------------------------ JSON, cache

\* localStorage.getItem on a key never set.
NoCache == <<"null">>

RECURSIVE parseNumber(_)
\* The number a run of decimal digits denotes (JSON.parse of a number).
parseNumber(ds) ==
  IF Len(ds) = 0 THEN 0
  ELSE 10 * parseNumber(SubSeq(ds, 1, Len(ds) - 1))
       + ((CHOOSE d \in 1..10 : Digits[d] = ds[Len(ds)]) - 1)

\* JSON.stringify of one value: a number is written as its digits, a string
\* as its characters, null as the literal null.
jsonValue(v, isString) ==
  IF isString THEN [kind |-> "string", text |-> v]
  ELSE IF v = Null THEN [kind |-> "null", text |-> <<>>]
  ELSE [kind |-> "number", text |-> toString(v)]

\* JSON.parse of one value.
jsonParse(j) ==
  IF j.kind = "string" THEN j.text
  ELSE IF j.kind = "null" THEN Null
  ELSE parseNumber(j.text)

\* JSON.stringify(state.employees)
JSONstringify(employees) ==
  [i \in 1..Len(employees) |->
     [id          |-> jsonValue(employees[i].id, FALSE),
      name        |-> jsonValue(employees[i].name, TRUE),
      designation |-> jsonValue(employees[i].designation, TRUE),
      team        |-> jsonValue(employees[i].team, TRUE),
      managerId   |-> jsonValue(employees[i].managerId, FALSE)]]

\* JSON.parse(cached)
JSONparse(text) ==
  [i \in 1..Len(text) |->
     [id          |-> jsonParse(text[i].id),
      name        |-> jsonParse(text[i].name),
      designation |-> jsonParse(text[i].designation),
      team        |-> jsonParse(text[i].team),
      managerId   |-> jsonParse(text[i].managerId)]]

\* ----------------------------------------------------------------- state

VARIABLES
  state,      \* the reducer state: employees, loading, error, searchTerm, selectedTeam
  cache,      \* localStorage['orgChartEmployees']
  fetch,      \* fetchEmployees: "unmounted", "pending" (GET awaited), "settled"
  inflight,   \* PATCH requests awaiting their response, in issue order
  hung,       \* the page is stuck in a loop that never ends
  last,       \* the handler that ran last, with its arguments and outcome
  arg,        \* pure calls: the collection passed to a tree helper
  ret,        \* pure calls: the helper called last, its arguments and result
  loop        \* getAllReports run step by step: its position, queue and reports

vars == <<state, cache, fetch, inflight, hung, last, arg, ret, loop>>

appVars == <<state, cache, fetch, inflight, hung, last>>

pureVars == <<arg, ret, loop>>

initialState ==
  [employees |-> <<>>, loading |-> FALSE, error |-> Null,
   searchTerm |-> <<>>, selectedTeam |-> <<>>]

NoEvent == [op |-> "none", active |-> Null, over |-> Null, outcome |-> "none"]

NoCall ==
  [op |-> "none", x |-> Null, y |-> Null, returns |-> FALSE, result |-> FALSE]

\* getAllReports is not running.
NoLoop == [pc |-> "idle", queue |-> <<>>, reports |-> <<>>]

\* { ...emp, ...updates }
Spread(emp, updates) ==
  [f \in DOMAIN emp \cup DOMAIN updates |->
     IF f \in DOMAIN updates THEN updates[f] ELSE emp[f]]

\* A mistaken variant: the updates are spread into every record.
UpdateEmployeeAll(employees, payload) ==
  [i \in 1..Len(employees) |-> Spread(employees[i], payload.updates)]

\* A mistaken variant: the record is matched on the new manager's id.
UpdateEmployeeWrongId(employees, payload) ==
  [i \in 1..Len(employees) |->
     IF employees[i].id = payload.updates.managerId
       THEN Spread(employees[i], payload.updates)
       ELSE employees[i]]

\* case UPDATE_EMPLOYEE of employeeReducer: the new employees array.
UpdateEmployee(employees, payload) ==
  [i \in 1..Len(employees) |->
     IF employees[i].id = payload.id
       THEN Spread(employees[i], payload.updates)
       ELSE employees[i]]

\* A mistaken variant: SET_ERROR sets the error but leaves loading as it is.
employeeReducerErrorKeepsLoading(s, action) ==
  CASE action.type = "SET_EMPLOYEES" ->
         [s EXCEPT !.employees = action.payload, !.loading = FALSE]
    [] action.type = "SET_LOADING" ->
         [s EXCEPT !.loading = action.payload]
    [] action.type = "SET_ERROR" ->
         [s EXCEPT !.error = action.payload]
    [] action.type = "UPDATE_EMPLOYEE" ->
         [s EXCEPT !.employees = UpdateEmployee(s.employees, action.payload)]
    [] action.type = "SET_SEARCH_TERM" ->
         [s EXCEPT !.searchTerm = action.payload]
    [] action.type = "SET_SELECTED_TEAM" ->
         [s EXCEPT !.selectedTeam = action.payload]
    [] OTHER -> s

\* A mistaken variant: SET_ERROR also empties the employees array.
employeeReducerErrorClears(s, action) ==
  CASE action.type = "SET_EMPLOYEES" ->
         [s EXCEPT !.employees = action.payload, !.loading = FALSE]
    [] action.type = "SET_LOADING" ->
         [s EXCEPT !.loading = action.payload]
    [] action.type = "SET_ERROR" ->
         [s EXCEPT !.error = action.payload, !.loading = FALSE,
                   !.employees = <<>>]
    [] action.type = "UPDATE_EMPLOYEE" ->
         [s EXCEPT !.employees = UpdateEmployee(s.employees, action.payload)]
    [] action.type = "SET_SEARCH_TERM" ->
         [s EXCEPT !.searchTerm = action.payload]
    [] action.type = "SET_SELECTED_TEAM" ->
         [s EXCEPT !.selectedTeam = action.payload]
    [] OTHER -> s

employeeReducer(s, action) ==
  CASE action.type = "SET_EMPLOYEES" ->
         [s EXCEPT !.employees = action.payload, !.loading = FALSE]
    [] action.type = "SET_LOADING" ->
         [s EXCEPT !.loading = action.payload]
    [] action.type = "SET_ERROR" ->
         [s EXCEPT !.error = action.payload, !.loading = FALSE]
    [] action.type = "UPDATE_EMPLOYEE" ->
         [s EXCEPT !.employees = UpdateEmployee(s.employees, action.payload)]
    [] action.type = "SET_SEARCH_TERM" ->
         [s EXCEPT !.searchTerm = action.payload]
    [] action.type = "SET_SELECTED_TEAM" ->
         [s EXCEPT !.selectedTeam = action.payload]
    [] OTHER -> s

\* A mistaken variant: the entry is written only when there is none yet.
SaveEffectOnce(old, new, stored) ==
  IF new.employees # old.employees /\ Len(new.employees) > 0
       /\ stored = NoCache
    THEN JSONstringify(new.employees)
    ELSE stored

\* The effect on [state.employees]: it runs after a dispatch that replaced
\* the employees array and saves a non-empty one.
SaveEffect(old, new, stored) ==
  IF new.employees # old.employees /\ Len(new.employees) > 0
    THEN JSONstringify(new.employees)
    ELSE stored

\* The fetch error message of a rejected GET.
FetchError == <<"F","a","i","l","e","d"," ","t","o"," ","f","e","t","c","h">>

Init ==
  /\ state = initialState
  /\ cache = NoCache
  /\ fetch = "unmounted"
  /\ inflight = <<>>
  /\ hung = FALSE
  /\ last = NoEvent
  /\ arg = <<>>
  /\ ret = NoCall
  /\ loop = NoLoop

\* fetchEmployees up to its first await: SET_LOADING, then the cached
\* collection if there is one, else GET /api/employees is sent.
fetchEmployees ==
  /\ fetch = "unmounted"
  /\ ~hung
  /\ LET loadingState ==
           employeeReducer(state, [type |-> "SET_LOADING", payload |-> TRUE])
     IN IF cache # NoCache
          THEN /\ state' = employeeReducer(loadingState,
                             [type |-> "SET_EMPLOYEES",
                              payload |-> JSONparse(cache)])
               /\ fetch' = "settled"
               /\ last' = [NoEvent EXCEPT !.op = "fetchEmployees",
                                          !.outcome = "cached"]
          ELSE /\ state' = loadingState
               /\ fetch' = "pending"
               /\ last' = [NoEvent EXCEPT !.op = "fetchEmployees",
                                          !.outcome = "GET"]
  /\ cache' = SaveEffect(state, state', cache)
  /\ UNCHANGED <<inflight, hung, pureVars>>

\* The GET response arrives: SET_EMPLOYEES with data.employees.
GetResolve ==
  /\ fetch = "pending"
  /\ state' = employeeReducer(state,
                [type |-> "SET_EMPLOYEES", payload |-> Seed])
  /\ cache' = SaveEffect(state, state', cache)
  /\ fetch' = "settled"
  /\ last' = [NoEvent EXCEPT !.op = "fetchEmployees", !.outcome = "loaded"]
  /\ UNCHANGED <<inflight, hung, pureVars>>

\* fetch or response.json() throws: SET_ERROR with the message.
GetReject ==
  /\ fetch = "pending"
  /\ state' = employeeReducer(state,
                [type |-> "SET_ERROR", payload |-> FetchError])
  /\ fetch' = "settled"
  /\ last' = [NoEvent EXCEPT !.op = "fetchEmployees", !.outcome = "error"]
  /\ UNCHANGED <<cache, inflight, hung, pureVars>>

\* The page is reloaded: the provider is constructed again, pending
\* responses are never handled, localStorage stays.
Reload ==
  /\ fetch = "settled"
  /\ state' = initialState
  /\ fetch' = "unmounted"
  /\ inflight' = <<>>
  /\ hung' = FALSE
  /\ last' = NoEvent
  /\ UNCHANGED <<cache, pureVars>>

\* filteredEmployees and tree of OrgChart, and the ids of the cards on
\* screen (none while loading, none when the tree is empty).
filteredEmployees ==
  filterEmployees(state.employees, state.searchTerm, state.selectedTeam)

tree == buildTree(filteredEmployees)

Rendered ==
  IF state.loading \/ fetch # "settled" THEN {} ELSE TreeKeys(tree)

\* over is null when the card is dropped on no droppable.
NoTarget == Null

\* A mistaken variant: the alert is shown but the handler does not return.
DropOutcomeNoReturn(employees, active, over) ==
  IF over = NoTarget \/ active = over THEN "ignored"
  ELSE IF Diverges(employees, active) THEN "hang"
  ELSE "PATCH"

\* A mistaken variant: a card released over no card is re-parented to
\* null (made a root).
DropOutcomeOnNothing(employees, active, over) ==
  IF active = over THEN "ignored"
  ELSE IF over = NoTarget THEN "PATCH"
  ELSE IF Diverges(employees, active) THEN "hang"
  ELSE IF wouldCreateCircularReference(employees, active, over)
    THEN "circular"
  ELSE "PATCH"

\* What handleDragEnd does with a drop, decided before its await.
DropOutcome(employees, active, over) ==
  IF over = NoTarget \/ active = over THEN "ignored"
  ELSE IF Diverges(employees, active) THEN "hang"
  ELSE IF wouldCreateCircularReference(employees, active, over)
    THEN "circular"
  ELSE "PATCH"

\* updateEmployeeManager up to its await: the PATCH request is sent.
SendPatch(requests, employeeId, newManagerId) ==
  Append(requests, [id |-> employeeId, managerId |-> newManagerId])

\* A mistaken variant: the guard is given the filtered view.
guardEmployeesFiltered == filteredEmployees

\* The `employees` OrgChart takes from useEmployees() and hands to the
\* guard: the whole collection of the state.
guardEmployees == state.employees

\* handleDragEnd for a card `active` dropped on `over`: both are cards on
\* screen (see Droppable), or over is null.
handleDragEnd(active, over) ==
  /\ ~hung
  /\ LET outcome == DropOutcome(guardEmployees, active, over)
     IN /\ outcome = "PATCH" => Len(inflight) < MaxInflight
        /\ inflight' = IF outcome = "PATCH"
                         THEN SendPatch(inflight, active, over)
                         ELSE inflight
        /\ hung' = (outcome = "hang")
        /\ last' = [op |-> "handleDragEnd", active |-> active,
                    over |-> over, outcome |-> outcome]
  /\ UNCHANGED <<state, cache, fetch, pureVars>>

\* A sequence without its i-th element.
RemoveAt(s, i) == SubSeq(s, 1, i - 1) \o SubSeq(s, i + 1, Len(s))

\* The PATCH response of request i arrives and response.json() resolves:
\* updateEmployeeManager dispatches UPDATE_EMPLOYEE.
PatchResolve(i) ==
  /\ ~hung
  /\ i \in 1..Len(inflight)
  /\ state' = employeeReducer(state,
                [type |-> "UPDATE_EMPLOYEE",
                 payload |-> [id |-> inflight[i].id,
                              updates |-> [managerId |-> inflight[i].managerId]]])
  /\ cache' = SaveEffect(state, state', cache)
  /\ inflight' = RemoveAt(inflight, i)
  /\ last' = [op |-> "updateEmployeeManager", active |-> inflight[i].id,
              over |-> inflight[i].managerId, outcome |-> "dispatched"]
  /\ UNCHANGED <<fetch, hung, pureVars>>

\* A mistaken variant: the dispatch is made before the request is awaited
\* and is not undone when the request fails.
PatchRejectAfterDispatch(i) ==
  /\ ~hung
  /\ i \in 1..Len(inflight)
  /\ state' = employeeReducer(state,
                [type |-> "UPDATE_EMPLOYEE",
                 payload |-> [id |-> inflight[i].id,
                              updates |-> [managerId |-> inflight[i].managerId]]])
  /\ cache' = SaveEffect(state, state', cache)
  /\ inflight' = RemoveAt(inflight, i)
  /\ last' = [op |-> "updateEmployeeManager", active |-> inflight[i].id,
              over |-> inflight[i].managerId, outcome |-> "thrown"]
  /\ UNCHANGED <<fetch, hung, pureVars>>

\* fetch or response.json() of request i throws: the error is logged and
\* rethrown, handleDragEnd catches it and alerts.
PatchReject(i) ==
  /\ ~hung
  /\ i \in 1..Len(inflight)
  /\ inflight' = RemoveAt(inflight, i)
  /\ last' = [op |-> "updateEmployeeManager", active |-> inflight[i].id,
              over |-> inflight[i].managerId, outcome |-> "thrown"]
  /\ UNCHANGED <<state, cache, fetch, hung, pureVars>>

\* Texts typed into the search box.
SearchTerms == {<<>>, <<"m">>}

\* The team labels of a collection (the options of the team filter).
TeamSet(employees) == {employees[i].team : i \in 1..Len(employees)}

setSearchTerm(term) ==
  /\ ~hung
  /\ fetch = "settled" /\ ~state.loading
  /\ state' = employeeReducer(state,
                [type |-> "SET_SEARCH_TERM", payload |-> term])
  /\ state' # state
  /\ cache' = SaveEffect(state, state', cache)
  /\ last' = [NoEvent EXCEPT !.op = "setSearchTerm"]
  /\ UNCHANGED <<fetch, inflight, hung, pureVars>>

setSelectedTeam(team) ==
  /\ ~hung
  /\ fetch = "settled" /\ ~state.loading
  /\ state' = employeeReducer(state,
                [type |-> "SET_SELECTED_TEAM", payload |-> team])
  /\ state' # state
  /\ cache' = SaveEffect(state, state', cache)
  /\ last' = [NoEvent EXCEPT !.op = "setSelectedTeam"]
  /\ UNCHANGED <<fetch, inflight, hung, pureVars>>

\* The droppables a card can be released over: the cards on screen, or none.
Droppable == Rendered \cup {NoTarget}

\* A card on screen is dragged and released.
Drop == \E active \in Rendered, over \in Droppable : handleDragEnd(active, over)

Load == fetchEmployees \/ GetResolve \/ GetReject \/ Reload

Filter ==
  \/ \E term \in SearchTerms : setSearchTerm(term)
  \/ \E team \in TeamSet(state.employees) \cup {<<>>} : setSelectedTeam(team)


\* Drops may come while earlier PATCH requests are still awaited.
Next ==
  \/ Load
  \/ Filter
  \/ Drop
  \/ \E i \in 1..MaxInflight : PatchResolve(i)
  \/ \E i \in 1..MaxInflight : PatchReject(i)

Spec == Init /\ [][Next]_vars

\* The GET request of fetchEmployees settles: the awaited promise is
\* fulfilled or rejected, and the continuation after the await is run.
SpecSettles == Init /\ [][Next]_vars /\ WF_vars(GetResolve \/ GetReject)

\* ------------------------------------------------ serialized drops

\* A drop made when no PATCH request is awaited: the earlier re-parenting
\* has completed with its dispatch (or its error).
serialDragEnd(active, over) ==
  /\ inflight = <<>>
  /\ handleDragEnd(active, over)

SerialDrop ==
  \E active \in Rendered, over \in Droppable : serialDragEnd(active, over)

NextSerial ==
  \/ Load
  \/ Filter
  \/ SerialDrop
  \/ PatchResolve(1)
  \/ PatchReject(1)

SpecSerial == Init /\ [][NextSerial]_vars

\* ------------------------------------------------ updateEmployeeManager called directly

\* updateEmployeeManager is part of the context value: a consumer may call
\* it with any employeeId and newManagerId.  The PATCH request is sent.
updateEmployeeManager(employeeId, newManagerId) ==
  /\ ~hung
  /\ fetch = "settled" /\ ~state.loading
  /\ Len(inflight) < MaxInflight
  /\ inflight' = SendPatch(inflight, employeeId, newManagerId)
  /\ last' = [op |-> "updateEmployeeManager", active |-> employeeId,
              over |-> newManagerId, outcome |-> "PATCH"]
  /\ UNCHANGED <<state, cache, fetch, hung, pureVars>>

NextApi ==
  \/ Load
  \/ \E employeeId \in 1..(NumEmp + 1), newManagerId \in 0..(NumEmp + 1) :
       updateEmployeeManager(employeeId, newManagerId)
  \/ \E i \in 1..MaxInflight : PatchResolve(i)
  \/ \E i \in 1..MaxInflight : PatchReject(i)

SpecApi == Init /\ [][NextApi]_vars

\* ------------------------------------------------ the tree helpers called on any collection

\* A record with the given id and managerId (the other fields are those of
\* the seed row with that id).
PureRecord(id, managerId) == [SeedRows[id] EXCEPT !.managerId = managerId]

\* The manager reference may also name MaxId + 1, an id no record has.
PureRecords ==
  {PureRecord(id, m) : id \in 1..MaxId, m \in 0..(MaxId + 1)}

\* Each call below is made once, on a fresh collection (ret = NoCall).
\* Every collection of at most MaxLen such records: ids may repeat, manager
\* references may dangle or form cycles.  The collection of the tests is
\* one more input.
Collections ==
  UNION {[1..n -> PureRecords] : n \in 0..MaxLen} \cup {mockEmployees}

InitPure ==
  /\ state = initialState
  /\ cache = NoCache
  /\ fetch = "unmounted"
  /\ inflight = <<>>
  /\ hung = FALSE
  /\ last = NoEvent
  /\ arg \in Collections
  /\ ret = NoCall
  /\ loop = NoLoop

callBuildTree ==
  /\ ret = NoCall
  /\ ret' = [op |-> "buildTree", x |-> Null, y |-> Null, returns |-> TRUE,
             result |-> buildTree(arg)]
  /\ arg' = employeesAfterBuildTree(arg)
  /\ UNCHANGED <<appVars, loop>>

\* wouldCreateCircularReference(arg, x, y); the call does not return when
\* getAllReports(arg, x) loops for ever.
callWouldCreateCircularReference(x, y) ==
  /\ ret = NoCall
  /\ ret' = IF x # y /\ Diverges(arg, x)
              THEN [op |-> "wouldCreateCircularReference", x |-> x, y |-> y,
                    returns |-> FALSE, result |-> FALSE]
              ELSE [op |-> "wouldCreateCircularReference", x |-> x, y |-> y,
                    returns |-> TRUE,
                    result |-> wouldCreateCircularReference(arg, x, y)]
  /\ arg' = employeesAfterGetAllReports(arg)
  /\ UNCHANGED <<appVars, loop>>

\* getAllReports(arg, x); the call does not return when the loop never
\* empties its queue.
callGetAllReports(x) ==
  /\ ret = NoCall
  /\ ret' = IF Diverges(arg, x)
              THEN [op |-> "getAllReports", x |-> x, y |-> Null,
                    returns |-> FALSE, result |-> FALSE]
              ELSE [op |-> "getAllReports", x |-> x, y |-> Null,
                    returns |-> TRUE, result |-> getAllReports(arg, x)]
  /\ arg' = employeesAfterGetAllReports(arg)
  /\ UNCHANGED <<appVars, loop>>

NextPure ==
  \/ callBuildTree
  \/ \E x \in 1..MaxId, y \in 1..MaxId : callWouldCreateCircularReference(x, y)
  \/ \E x \in 1..(MaxId + 1) : callGetAllReports(x)

SpecPure == InitPure /\ [][NextPure]_vars


\* ------------------------------------------------ the helpers called on a filtered view

\* The search texts typed: none, and one that two of the names contain.
ViewSearchTexts == {<<>>, <<"l","i","n">>}

\* The team filters chosen: none, and the team of one of the records.
ViewTeamFilters == {<<>>, SeedRows[2].team}

\* What a call wouldCreateCircularReference(employees, x, y) comes to:
\* "true", "false", or "loops" when getAllReports never returns.
guardOutcome(employees, x, y) ==
  IF x # y /\ Diverges(employees, x) THEN "loops"
  ELSE IF wouldCreateCircularReference(employees, x, y) THEN "true"
  ELSE "false"

\* The guard evaluated on filterEmployees(arg, searchTerm, selectedTeam)
\* and on arg itself.
callGuardOnView(searchTerm, selectedTeam, x, y) ==
  /\ ret = NoCall
  /\ ret' = [op |-> "guardOnView", x |-> x, y |-> y, returns |-> TRUE,
             result |->
               [searchTerm |-> searchTerm, selectedTeam |-> selectedTeam,
                view |-> guardOutcome(
                           filterEmployees(arg, searchTerm, selectedTeam),
                           x, y),
                full |-> guardOutcome(arg, x, y)]]
  /\ arg' = employeesAfterGetAllReports(employeesAfterFilterEmployees(arg))
  /\ UNCHANGED <<appVars, loop>>

\* A mistaken variant: the tree is built from employees, not from
\* filteredEmployees.
callBuildTreeOfEmployees(searchTerm, selectedTeam) ==
  /\ ret = NoCall
  /\ ret' = [op |-> "treeOfView", x |-> searchTerm, y |-> selectedTeam,
             returns |-> TRUE, result |-> buildTree(arg)]
  /\ arg' = employeesAfterBuildTree(employeesAfterFilterEmployees(arg))
  /\ UNCHANGED <<appVars, loop>>

\* OrgChart's two memos: filteredEmployees = filterEmployees(employees,
\* searchTerm, selectedTeam) and tree = buildTree(filteredEmployees).
callBuildTreeOnView(searchTerm, selectedTeam) ==
  /\ ret = NoCall
  /\ ret' = [op |-> "treeOfView", x |-> searchTerm, y |-> selectedTeam,
             returns |-> TRUE,
             result |->
               buildTree(filterEmployees(arg, searchTerm, selectedTeam))]
  /\ arg' = employeesAfterBuildTree(employeesAfterFilterEmployees(arg))
  /\ UNCHANGED <<appVars, loop>>

NextView ==
  \/ \E searchTerm \in ViewSearchTexts, selectedTeam \in ViewTeamFilters,
        x \in 1..MaxId, y \in 1..MaxId :
       callGuardOnView(searchTerm, selectedTeam, x, y)
  \/ \E searchTerm \in ViewSearchTexts, selectedTeam \in ViewTeamFilters :
       callBuildTreeOnView(searchTerm, selectedTeam)

SpecView == InitPure /\ [][NextView]_vars


\* ------------------------------------------------ getAllReports, one loop iteration per step

\* A mistaken variant: the first id is read but left in the queue.
ShiftPeek(queue) == queue

\* queue.shift(): the queue without its first id.
Shift(queue) == Tail(queue)

\* getAllReports(arg, x) is entered: reports = [], queue = [managerId].
enterGetAllReports(x) ==
  /\ ret = NoCall
  /\ loop.pc = "idle"
  /\ loop' = [pc |-> "while", queue |-> <<x>>, reports |-> <<>>]
  /\ ret' = [op |-> "getAllReports", x |-> x, y |-> Null,
             returns |-> FALSE, result |-> FALSE]
  /\ UNCHANGED <<appVars, arg>>

\* wouldCreateCircularReference(arg, x, y) is entered: it returns true at
\* once when x = y and calls getAllReports(arg, x) otherwise.
enterWouldCreateCircularReference(x, y) ==
  /\ ret = NoCall
  /\ loop.pc = "idle"
  /\ loop' = IF x = y
               THEN [NoLoop EXCEPT !.pc = "returned"]
               ELSE [pc |-> "while", queue |-> <<x>>, reports |-> <<>>]
  /\ ret' = [op |-> "wouldCreateCircularReference", x |-> x, y |-> y,
             returns |-> (x = y), result |-> (x = y)]
  /\ UNCHANGED <<appVars, arg>>

\* A mistaken variant: a record that is already in reports is not pushed
\* again (a visited check).
whileStepVisited ==
  /\ loop.pc = "while"
  /\ Len(loop.queue) > 0
  /\ Len(loop.reports) < MaxReports
  /\ LET currentId == Head(loop.queue)
         directReports ==
           SelectSeq(arg, LAMBDA emp :
             /\ emp.managerId = currentId
             /\ \A p \in 1..Len(loop.reports) : loop.reports[p].id # emp.id)
     IN loop' = [loop EXCEPT
                   !.queue = Shift(loop.queue) \o Ids(directReports),
                   !.reports = loop.reports \o directReports]
  /\ UNCHANGED <<appVars, arg, ret>>

\* One iteration of while (queue.length > 0): shift the current id, filter
\* its direct reports, push them to reports and their ids to the queue.
whileStep ==
  /\ loop.pc = "while"
  /\ Len(loop.queue) > 0
  /\ Len(loop.reports) < MaxReports
  /\ LET currentId == Head(loop.queue)
         directReports ==
           SelectSeq(arg, LAMBDA emp : emp.managerId = currentId)
     IN loop' = [loop EXCEPT
                   !.queue = Shift(loop.queue) \o Ids(directReports),
                   !.reports = loop.reports \o directReports]
  /\ UNCHANGED <<appVars, arg, ret>>

\* The queue is empty: getAllReports returns reports, and
\* wouldCreateCircularReference returns allReports.some(...).
returnReports ==
  /\ loop.pc = "while"
  /\ Len(loop.queue) = 0
  /\ loop' = [loop EXCEPT !.pc = "returned"]
  /\ ret' = [ret EXCEPT
               !.returns = TRUE,
               !.result = IF ret.op = "getAllReports"
                            THEN loop.reports
                            ELSE \E i \in 1..Len(loop.reports) :
                                   loop.reports[i].id = ret.y]
  /\ UNCHANGED <<appVars, arg>>

NextLoop ==
  \/ \E x \in 1..(MaxId + 1) : enterGetAllReports(x)
  \/ \E x \in 1..MaxId, y \in 1..MaxId : enterWouldCreateCircularReference(x, y)
  \/ whileStep
  \/ returnReports

\* The loop is synchronous code run by a single thread: once entered, the
\* engine keeps executing its next iteration or its return.
SpecLoop ==
  InitPure /\ [][NextLoop]_vars /\ WF_vars(whileStep) /\ WF_vars(returnReports)

\* ------------------------------------------------ filterEmployees and getUniqueTeams called on any collection

\* A record of the tests whose team label is written in lower case.
lowerTeam(emp) == [emp EXCEPT !.team = toLowerCase(emp.team)]

\* The records the filters are run on: those of the tests, and one of
\* them with its team in lower case as well.
FilterRecords == Range(mockEmployees) \cup {lowerTeam(mockEmployees[4])}

\* Every collection of at most MaxLen such records, and the collection of
\* the tests.
FilterCollections ==
  UNION {[1..n -> FilterRecords] : n \in 0..MaxLen} \cup {mockEmployees}

\* The search texts passed: none, the empty text, the texts of the tests
\* and texts differing from a field in case only, an id, a team label.
SearchTexts ==
  {Undefined, <<>>,
   <<"C","E","O">>,
   <<"c","e","o">>,
   <<"D","e","v">>,
   <<"D","E","V">>,
   <<"D","e","v","e","l","o","p","e","r">>,
   <<"2">>,
   <<"f","i","n","a","n","c","e">>,
   <<"T","E","C","H">>}

\* The team filters passed: none, the empty label, labels of the records
\* and a label differing from one in case only.
TeamFilters ==
  {Undefined, <<>>,
   <<"T","e","c","h","n","o","l","o","g","y">>,
   <<"t","e","c","h","n","o","l","o","g","y">>,
   <<"F","i","n","a","n","c","e">>}

InitFilter ==
  /\ state = initialState
  /\ cache = NoCache
  /\ fetch = "unmounted"
  /\ inflight = <<>>
  /\ hung = FALSE
  /\ last = NoEvent
  /\ arg \in FilterCollections
  /\ ret = NoCall
  /\ loop = NoLoop

\* filterEmployees(arg, searchTerm, selectedTeam)
callFilterEmployees(searchTerm, selectedTeam) ==
  /\ ret = NoCall
  /\ ret' = [op |-> "filterEmployees", x |-> searchTerm, y |-> selectedTeam,
             returns |-> TRUE,
             result |-> filterEmployees(arg, searchTerm, selectedTeam)]
  /\ arg' = employeesAfterFilterEmployees(arg)
  /\ UNCHANGED <<appVars, loop>>

\* getUniqueTeams(arg)
callGetUniqueTeams ==
  /\ ret = NoCall
  /\ ret' = [op |-> "getUniqueTeams", x |-> Null, y |-> Null,
             returns |-> TRUE, result |-> getUniqueTeams(arg)]
  /\ arg' = employeesAfterGetUniqueTeams(arg)
  /\ UNCHANGED <<appVars, loop>>

NextFilter ==
  \/ \E searchTerm \in SearchTexts, selectedTeam \in TeamFilters :
       callFilterEmployees(searchTerm, selectedTeam)
  \/ callGetUniqueTeams

SpecFilter == InitFilter /\ [][NextFilter]_vars

\* ------------------------------------------------ all six helpers called on the records of the tests

\* findEmployeeById(arg, id)
callFindEmployeeById(id) ==
  /\ ret = NoCall
  /\ ret' = [op |-> "findEmployeeById", x |-> id, y |-> Null,
             returns |-> TRUE, result |-> findEmployeeById(arg, id)]
  /\ arg' = employeesAfterFindEmployeeById(arg)
  /\ UNCHANGED <<appVars, loop>>

NextHelpers ==
  \/ callBuildTree
  \/ \E searchTerm \in SearchTexts, selectedTeam \in TeamFilters :
       callFilterEmployees(searchTerm, selectedTeam)
  \/ callGetUniqueTeams
  \/ \E id \in 1..(MaxId + 1) : callFindEmployeeById(id)
  \/ \E x \in 1..(MaxId + 1) : callGetAllReports(x)
  \/ \E x \in 1..MaxId, y \in 1..MaxId : callWouldCreateCircularReference(x, y)

SpecHelpers == InitFilter /\ [][NextHelpers]_vars

\* ------------------------------------------------ properties

\* The manager ids of the records whose id is in S.
ManagersOf(r, S) ==
  {r[i].managerId : i \in {j \in 1..Len(r) : r[j].id \in S}} \ {Null}

RECURSIVE AncestorsWithin(_, _, _)
\* The ids met by following manager references upward from the ids in S,
\* for at most n steps.
AncestorsWithin(r, S, n) ==
  IF n = 0 \/ S = {} THEN {}
  ELSE ManagersOf(r, S) \cup AncestorsWithin(r, ManagersOf(r, S), n - 1)

\* Every id above `id` in the manager relation of r.
Ancestors(r, id) == AncestorsWithin(r, {id}, Len(r) + 1)

\* Some record is its own manager, directly or through others.
ManagerCycle(r) == \E i \in 1..Len(r) : r[i].id \in Ancestors(r, r[i].id)

UniqueIds(r) == \A i, j \in 1..Len(r) : r[i].id = r[j].id => i = j

\* A step of handleDragEnd (every handler records itself in last).
DragStep == last'.op = "handleDragEnd"

\* A step in which updateEmployeeManager dispatched UPDATE_EMPLOYEE.
DispatchStep ==
  /\ Len(inflight') < Len(inflight)
  /\ last'.op = "updateEmployeeManager"
  /\ last'.outcome = "dispatched"

\* C1: with drops serialized (each re-parenting completes before the next
\* drop), the manager relation of state.employees stays acyclic.
C1_SerialDropsKeepAcyclic == ~ManagerCycle(state.employees)

\* C1 witness: a serialized drop has been committed and made a chain.
C1_Witness ==
  /\ last.op = "updateEmployeeManager" /\ last.outcome = "dispatched"
  /\ \E i, j \in 1..Len(state.employees) :
       /\ state.employees[i].managerId = state.employees[j].id
       /\ state.employees[j].managerId # Null
  /\ state.employees # Seed

\* C2: in every reachable state, drops overlapping an awaited PATCH
\* included, no record of state.employees is above itself in the manager
\* relation.
C2_NeverCircular ==
  \A i \in 1..Len(state.employees) :
    state.employees[i].id \notin
      Ancestors(state.employees, state.employees[i].id)

\* The drops handleDragEnd rejects: no target, dropped on itself, or the
\* guard answers true.
Rejected(r, active, over) ==
  \/ over = NoTarget
  \/ active = over
  \/ (~Diverges(r, active) /\ wouldCreateCircularReference(r, active, over))

\* C3: a rejected drop issues no PATCH, dispatches nothing and leaves the
\* state (and the cache) as it was.
C3_RejectedDropIsNoOp ==
  [][(DragStep /\ Rejected(state.employees, last'.active, last'.over))
       => (inflight' = inflight /\ state' = state /\ cache' = cache)]_vars

\* C3 witness: a drop on one's own report was rejected by the guard.
C3_Witness ==
  /\ last.op = "handleDragEnd" /\ last.outcome = "circular"
  /\ inflight = <<>>

\* The fields of a record other than managerId are those of another.
SameButManager(a, b) ==
  /\ DOMAIN a = DOMAIN b
  /\ \A f \in DOMAIN a \ {"managerId"} : a[f] = b[f]

\* C4: the dispatch of a re-parenting keeps length and order, gives the
\* moved record the new managerId and nothing else, and leaves every other
\* record as it was.
C4_ReparentFrame ==
  [][DispatchStep =>
       /\ Len(state'.employees) = Len(state.employees)
       /\ \A i \in 1..Len(state.employees) :
            IF state.employees[i].id = last'.active
              THEN /\ state'.employees[i].managerId = last'.over
                   /\ SameButManager(state'.employees[i], state.employees[i])
              ELSE state'.employees[i] = state.employees[i]]_vars

\* C4 witness: a dispatch has moved an employee under a new manager.
C4_Witness ==
  /\ last.op = "updateEmployeeManager" /\ last.outcome = "dispatched"
  /\ \E i \in 1..Len(state.employees) :
       /\ state.employees[i].id = last.active
       /\ state.employees[i].managerId = last.over
       /\ Seed[i].managerId # last.over

\* A step that completes the request updateEmployeeManager(id, managerId).
Completes(i) ==
  /\ i \in 1..Len(inflight)
  /\ inflight' = RemoveAt(inflight, i)
  /\ last'.op = "updateEmployeeManager"
  /\ last'.outcome \in {"dispatched", "thrown"}
  /\ last'.active = inflight[i].id
  /\ last'.over = inflight[i].managerId

\* The request names an employee or a new manager that no record has.
NotFound(r, req) ==
  \/ req.id \notin IdSet(r)
  \/ (req.managerId # Null /\ req.managerId \notin IdSet(r))

\* C5: a re-parenting that names an unknown employee or an unknown new
\* manager ends in an error given to the caller and changes no record.
C5_UnknownIdFailsUnchanged ==
  [][\A i \in 1..Len(inflight) :
       (Completes(i) /\ NotFound(state.employees, inflight[i]))
         => (last'.outcome = "thrown" /\ state'.employees = state.employees)]_vars

\* C6: where the call returns, wouldCreateCircularReference(r, x, y) is
\* true exactly when x = y or y is the id of a record of
\* getAllReports(r, x), that is, when x is above y in the manager relation;
\* it is false in every other case.
C6_GuardIffSelfOrReport ==
  (ret.op = "wouldCreateCircularReference" /\ ret.returns) =>
    /\ ret.result = (ret.x = ret.y \/ ret.x \in Ancestors(arg, ret.y))
    /\ (ret.x # ret.y) =>
         (ret.result = (ret.y \in IdSet(getAllReports(arg, ret.x))))

\* C6 witness: the guard answered true for a report that is not a direct
\* report, in a collection with unique ids.
C6_Witness ==
  /\ ret.op = "wouldCreateCircularReference" /\ ret.returns
  /\ ret.result = TRUE
  /\ ret.x # ret.y
  /\ UniqueIds(arg)
  /\ \A i \in 1..Len(arg) : arg[i].id = ret.y => arg[i].managerId # ret.x

\* The drop would close a cycle: the target is the dragged employee or is
\* below it in the manager relation of r.
ClosesCycle(r, active, over) ==
  over # NoTarget /\ (active = over \/ active \in Ancestors(r, over))

\* C7: whatever the search term and team filter, a drop that would close a
\* cycle in the whole of state.employees is not carried out: no PATCH is
\* issued and nothing is dispatched.
C7_GuardSeesWholeCollection ==
  [][(DragStep /\ ClosesCycle(state.employees, last'.active, last'.over))
       => (inflight' = inflight /\ state' = state)]_vars

\* C7 witness: a drop was rejected as circular while the filter hid the
\* records that link the dragged employee to the target (on the filtered
\* view the guard would have answered false).
C7_Witness ==
  /\ last.op = "handleDragEnd" /\ last.outcome = "circular"
  /\ Len(filteredEmployees) < Len(state.employees)
  /\ ~wouldCreateCircularReference(filteredEmployees, last.active, last.over)

\* C8: no record of state.employees is its own manager, whatever the
\* interleaving of drops and PATCH responses.
C8_NoSelfManager ==
  \A i \in 1..Len(state.employees) :
    state.employees[i].managerId # state.employees[i].id

\* C8 witness: two re-parentings overlapped and both were committed.
C8_Witness ==
  /\ last.op = "updateEmployeeManager" /\ last.outcome = "dispatched"
  /\ ManagerCycle(state.employees)

RECURSIVE Walk(_, _, _)
\* The nodes of a forest, every root followed by its nested children, as
\* the sequence of their keys; the descent stops below depth `depth`.
Walk(t, keys, depth) ==
  IF Len(keys) = 0 \/ depth = 0 THEN <<>>
  ELSE <<Head(keys)>>
       \o Walk(t, t.nodes[Head(keys)].children, depth - 1)
       \o Walk(t, Tail(keys), depth)

\* The nodes of buildTree's result for a collection r.  A forest of r's
\* records is no deeper than Len(r); a result that is deeper (a node below
\* itself) shows as more than Len(r) nodes.
ForestNodes(r, t) == Walk(t, t.roots, Len(r) + 1)

\* The forest holds as many nodes as r has records, and every id of r
\* once.
Complete(r, t) ==
  /\ Len(ForestNodes(r, t)) = Len(r)
  /\ \A id \in IdSet(r) :
       Cardinality({p \in 1..Len(ForestNodes(r, t)) :
                      t.nodes[ForestNodes(r, t)[p]].id = id}) = 1

\* C9 as stated: for every non-empty collection the forest is complete.
C9_ForestCompleteEveryCollection ==
  (ret.op = "buildTree" /\ Len(arg) > 0) => Complete(arg, ret.result)

\* C9 amended: for every non-empty collection with unique ids and an
\* acyclic manager relation, the forest holds as many nodes as there are
\* records and every input id exactly once.
C9_ForestCompleteUniqueAcyclic ==
  (ret.op = "buildTree" /\ Len(arg) > 0
     /\ UniqueIds(arg) /\ ~ManagerCycle(arg))
    => Complete(arg, ret.result)

\* C9 witness: a forest of three records with a root, its report and the
\* report's report.
C9_Witness ==
  /\ ret.op = "buildTree" /\ Len(arg) = 3
  /\ UniqueIds(arg) /\ ~ManagerCycle(arg)
  /\ Len(ret.result.roots) = 1
  /\ \E k \in DOMAIN ret.result.nodes :
       /\ ret.result.nodes[k].managerId # Null
       /\ Len(ret.result.nodes[k].children) = 1

\* A node as the record it was copied from.
NodeRecord(node) ==
  [id |-> node.id, name |-> node.name, designation |-> node.designation,
   team |-> node.team, managerId |-> node.managerId]

\* The record is in the root list.
IsRoot(t, rec) ==
  \E p \in 1..Len(t.roots) : NodeRecord(t.nodes[t.roots[p]]) = rec

\* A record without manager, or with a manager no record has, is in the
\* root list; a record whose manager is a record's id is not.
RootPolicy(r, t) ==
  \A i \in 1..Len(r) :
    IF r[i].managerId = Null \/ r[i].managerId \notin IdSet(r)
      THEN IsRoot(t, r[i])
      ELSE ~IsRoot(t, r[i])

\* C10 as stated: the root policy, for every input collection.
C10_RootPolicyEveryCollection ==
  (ret.op = "buildTree" /\ Len(arg) > 0) => RootPolicy(arg, ret.result)

\* C10 amended: for a collection with unique ids, a record is in the root
\* list exactly when its managerId is null or equals no id of the
\* collection.
C10_RootPolicyUniqueIds ==
  (ret.op = "buildTree" /\ Len(arg) > 0 /\ UniqueIds(arg))
    => RootPolicy(arg, ret.result)

\* C10 witness: a collection with a record without manager, an orphan and
\* a record whose manager is present.
C10_Witness ==
  /\ ret.op = "buildTree" /\ UniqueIds(arg)
  /\ \E i, j, k \in 1..Len(arg) :
       /\ arg[i].managerId = Null
       /\ arg[j].managerId # Null /\ arg[j].managerId \notin IdSet(arg)
       /\ arg[k].managerId \in IdSet(arg)
  /\ Len(ret.result.roots) = 2

\* The positions of r whose record satisfies Sel.
Selected(r, Sel(_)) == {i \in 1..Len(r) : Sel(r[i])}

\* keys lists the ids of the records of r that satisfy Sel, each position
\* once, in the order of r: the p-th key is the id of the p-th such record.
InInputOrder(keys, r, Sel(_)) ==
  LET sel == Selected(r, Sel)
  IN /\ Len(keys) = Cardinality(sel)
     /\ \A p \in 1..Len(keys) :
          \E i \in sel : /\ Cardinality({j \in sel : j < i}) = p - 1
                         /\ keys[p] = r[i].id

\* A root record: no manager, or a manager no record has.
RootRecord(r, rec) == rec.managerId = Null \/ rec.managerId \notin IdSet(r)

\* C11: buildTree keeps the input order at every level.  The root list is
\* the root records in input order, the children of every node are the
\* records whose managerId is the node's id, in input order; with unique
\* ids every node is the copy of the record of its id.
C11_InputOrderAtEveryLevel ==
  (ret.op = "buildTree" /\ Len(arg) > 0) =>
    LET t == ret.result
    IN /\ InInputOrder(t.roots, arg, LAMBDA rec : RootRecord(arg, rec))
       /\ \A k \in DOMAIN t.nodes :
            /\ t.nodes[k].id = k
            /\ InInputOrder(t.nodes[k].children, arg,
                            LAMBDA rec : rec.managerId = t.nodes[k].id)
       /\ UniqueIds(arg) =>
            \A k \in DOMAIN t.nodes :
              \E i \in 1..Len(arg) : arg[i] = NodeRecord(t.nodes[k])

\* C11 witness: the five-record chain of the tests gives one root 1 with
\* children 2, 3, node 2 with child 4 and node 4 with child 5.
C11_Witness ==
  /\ ret.op = "buildTree" /\ arg = mockEmployees
  /\ ret.result.roots = <<1>>
  /\ ret.result.nodes[1].children = <<2, 3>>
  /\ ret.result.nodes[2].children = <<4>>
  /\ ret.result.nodes[4].children = <<5>>
  /\ ret.result.nodes[3].children = <<>>
  /\ ret.result.nodes[5].children = <<>>

\* The positions of the records of r that are below x in the manager
\* relation: their manager chain reaches x.
Descendants(r, x) == {i \in 1..Len(r) : x \in Ancestors(r, r[i].id)}

\* The number of manager references from the record with this id up to x.
Depth(r, id, x) ==
  CHOOSE n \in 1..(Len(r) + 1) :
    /\ x \in AncestorsWithin(r, {id}, n)
    /\ \A m \in 1..(n - 1) : x \notin AncestorsWithin(r, {id}, m)

\* The position of the record with this id (ids unique).
PositionOf(s, id) == CHOOSE i \in 1..Len(s) : s[i].id = id

\* res lists records level by level below x: a record nearer to x comes
\* first; within a level the reports of the manager listed earlier come
\* first; the reports of one manager are in the order of r.
LevelOrder(r, x, res) ==
  \A p, q \in 1..Len(res) :
    p < q =>
      /\ Depth(r, res[p].id, x) <= Depth(r, res[q].id, x)
      /\ (/\ Depth(r, res[p].id, x) = Depth(r, res[q].id, x)
          /\ res[p].managerId # res[q].managerId)
           => PositionOf(res, res[p].managerId)
                < PositionOf(res, res[q].managerId)
      /\ res[p].managerId = res[q].managerId
           => PositionOf(r, res[p].id) < PositionOf(r, res[q].id)

\* C12: on a collection with unique ids and an acyclic manager relation
\* getAllReports(r, x) returns the records below x and no other, each once,
\* never x's own record, level by level with the direct reports first and
\* input order among the reports of one manager; it returns the empty
\* sequence when no record has managerId = x.
C12_StrictDescendantsInLevelOrder ==
  (ret.op = "getAllReports" /\ UniqueIds(arg) /\ ~ManagerCycle(arg)) =>
    /\ ret.returns
    /\ Len(ret.result) = Cardinality(Descendants(arg, ret.x))
    /\ \A i \in Descendants(arg, ret.x) :
         \E p \in 1..Len(ret.result) : ret.result[p] = arg[i]
    /\ \A p \in 1..Len(ret.result) : ret.result[p].id # ret.x
    /\ LevelOrder(arg, ret.x, ret.result)
    /\ (\A i \in 1..Len(arg) : arg[i].managerId # ret.x)
         => ret.result = <<>>

\* C12 witness: on the five-record chain of the tests the reports of 2 are
\* the records 4 and 5, in that order.
C12_Witness ==
  /\ ret.op = "getAllReports" /\ ret.returns
  /\ arg = mockEmployees /\ ret.x = 2
  /\ Ids(ret.result) = <<4, 5>>

\* How many times the value v occurs in the sequence s.
Occurrences(s, v) == Cardinality({i \in 1..Len(s) : s[i] = v})

\* C13: for every collection, duplicate ids included, where getAllReports
\* returns, no record is listed more often in the result than it occurs in
\* the collection: each record appears at most once.
C13_EachRecordAtMostOnce ==
  (ret.op = "getAllReports" /\ ret.returns) =>
    \A p \in 1..Len(ret.result) :
      Occurrences(ret.result, ret.result[p]) <= Occurrences(arg, ret.result[p])

\* C14: on every collection with unique ids and an acyclic manager
\* relation, for every start id, a running getAllReports loop (entered
\* directly or from wouldCreateCircularReference) eventually finds its
\* queue empty and returns.
C14_LoopTerminates ==
  []((loop.pc = "while" /\ UniqueIds(arg) /\ ~ManagerCycle(arg))
       => <>(loop.pc = "returned" /\ Len(loop.queue) = 0 /\ ret.returns))

\* C14 witness: wouldCreateCircularReference has returned true after its
\* loop went down a chain to a report of a report.
C14_Witness ==
  /\ loop.pc = "returned" /\ ret.returns
  /\ ret.op = "wouldCreateCircularReference" /\ ret.result = TRUE
  /\ UniqueIds(arg) /\ ~ManagerCycle(arg)
  /\ Len(loop.reports) = 2
  /\ loop.reports[2].id = ret.y
  /\ loop.reports[2].managerId # ret.x

\* The filter argument is the empty text or was not passed.
EmptyOrAbsent(v) == v = <<>> \/ v = Undefined

\* C15: with both filters empty or absent filterEmployees returns a
\* sequence equal to its input: the same records in the same order, none
\* dropped, none duplicated.
C15_NoFilterReturnsAll ==
  (ret.op = "filterEmployees" /\ EmptyOrAbsent(ret.x) /\ EmptyOrAbsent(ret.y))
    => ret.result = arg

\* C15 witness: three records, one of them twice, filtered with an empty
\* search text and no team.
C15_Witness ==
  /\ ret.op = "filterEmployees"
  /\ ret.x = <<>> /\ ret.y = Undefined
  /\ Len(arg) = 3 /\ arg[1] = arg[3] /\ arg[1] # arg[2]
  /\ Len(ret.result) = 3

\* res is the subsequence of base made of the records that satisfy Sel, in
\* the order of base: its p-th record is the p-th such record of base.
Restriction(res, base, Sel(_)) ==
  LET sel == Selected(base, Sel)
  IN /\ Len(res) = Cardinality(sel)
     /\ \A p \in 1..Len(res) :
          \E i \in sel : /\ Cardinality({j \in sel : j < i}) = p - 1
                         /\ res[p] = base[i]

\* C16: with a non-empty team t, filterEmployees(r, s, t) is the
\* subsequence of filterEmployees(r, s, "") made of the records whose team
\* equals t character for character, in the same order; it is never longer.
C16_TeamFilterRestrictsSearch ==
  (ret.op = "filterEmployees" /\ ~EmptyOrAbsent(ret.y)) =>
    LET searchOnly == filterEmployees(arg, ret.x, <<>>)
    IN /\ Restriction(ret.result, searchOnly, LAMBDA rec : rec.team = ret.y)
       /\ Len(ret.result) <= Len(searchOnly)

\* C16 witness: the team filter kept a record and dropped one that passed
\* the search and whose team differs from the filter in case only.
C16_Witness ==
  /\ ret.op = "filterEmployees" /\ ~EmptyOrAbsent(ret.y)
  /\ ~EmptyOrAbsent(ret.x)
  /\ Len(ret.result) = 1
  /\ \E i \in 1..Len(filterEmployees(arg, ret.x, <<>>)) :
       /\ filterEmployees(arg, ret.x, <<>>)[i].team # ret.y
       /\ toLowerCase(filterEmployees(arg, ret.x, <<>>)[i].team)
            = toLowerCase(ret.y)

\* Two characters that are equal or the upper and lower case of one letter.
SameLetter(a, b) ==
  \/ a = b
  \/ \E i \in 1..Len(Upper) : {a, b} = {Upper[i], LowerLetters[i]}

\* s occurs in text as a contiguous substring, letter case disregarded.
OccursIgnoringCase(text, s) ==
  \E k \in 0..(Len(text) - Len(s)) :
    \A j \in 1..Len(s) : SameLetter(text[k + j], s[j])

\* s occurs in the name, the designation, the team or the decimal form of
\* the id of the record.
SearchHit(rec, s) ==
  \/ OccursIgnoringCase(rec.name, s)
  \/ OccursIgnoringCase(rec.designation, s)
  \/ OccursIgnoringCase(rec.team, s)
  \/ OccursIgnoringCase(toString(rec.id), s)

\* C17: with a non-empty search text filterEmployees keeps a record if and
\* only if the text occurs, letter case disregarded, in its name, its
\* designation, its team or the textual form of its id (and, where a team
\* filter is given too, its team is that team); the kept records stay in
\* input order.
C17_KeptIffSearchHit ==
  (ret.op = "filterEmployees" /\ ~EmptyOrAbsent(ret.x)) =>
    Restriction(ret.result, arg,
                LAMBDA rec : /\ SearchHit(rec, ret.x)
                             /\ (EmptyOrAbsent(ret.y) \/ rec.team = ret.y))

\* C17 witness: a record was kept for its id alone (the text occurs in
\* none of its other fields), another record was dropped.
C17_Witness ==
  /\ ret.op = "filterEmployees" /\ ~EmptyOrAbsent(ret.x)
  /\ EmptyOrAbsent(ret.y)
  /\ Len(ret.result) = 1 /\ Len(arg) = 3
  /\ OccursIgnoringCase(toString(ret.result[1].id), ret.x)
  /\ ~OccursIgnoringCase(ret.result[1].name, ret.x)
  /\ ~OccursIgnoringCase(ret.result[1].designation, ret.x)
  /\ ~OccursIgnoringCase(ret.result[1].team, ret.x)

\* String.prototype.toUpperCase, for the letters of the model.
toUpperCase(s) ==
  [i \in 1..Len(s) |->
     IF \E k \in 1..Len(LowerLetters) : LowerLetters[k] = s[i]
       THEN Upper[CHOOSE k \in 1..Len(LowerLetters) : LowerLetters[k] = s[i]]
       ELSE s[i]]

\* Two texts that differ in letter case only.
SameIgnoringCase(a, b) ==
  /\ Len(a) = Len(b)
  /\ \A i \in 1..Len(a) : SameLetter(a[i], b[i])

\* C18: the result of a search does not depend on the letter case of the
\* search text: every text that differs from the one passed in case only
\* (its upper-case and lower-case forms among them) gives the same result
\* on the same collection and team filter.
C18_SearchTextCaseInsensitive ==
  (ret.op = "filterEmployees" /\ ~EmptyOrAbsent(ret.x)) =>
    \A s \in SearchTexts \cup {toUpperCase(ret.x), toLowerCase(ret.x)} :
      SameIgnoringCase(ret.x, s)
        => filterEmployees(arg, s, ret.y) = ret.result

\* C18 witness: the text in lower case found the record whose name has it
\* in upper case, and another record was dropped.
C18_Witness ==
  /\ ret.op = "filterEmployees" /\ ~EmptyOrAbsent(ret.x)
  /\ ret.x = toLowerCase(ret.x)
  /\ toUpperCase(ret.x) \in SearchTexts
  /\ Len(ret.result) = 1 /\ Len(arg) > 1
  /\ ret.result[1].name = toUpperCase(ret.x)

\* a comes before b in lexicographic order of the character codes: at the
\* first place where they differ a has the smaller code, or a ends there.
LexLess(a, b) ==
  \E k \in 1..Len(b) :
    /\ k - 1 <= Len(a)
    /\ SubSeq(a, 1, k - 1) = SubSeq(b, 1, k - 1)
    /\ (k = Len(a) + 1 \/ CharCode(a[k]) < CharCode(b[k]))

\* C19: getUniqueTeams returns the team labels that occur in the
\* collection and nothing else, each once, in ascending lexicographic
\* order (every label strictly before the labels after it).
C19_UniqueTeamsSorted ==
  (ret.op = "getUniqueTeams") =>
    /\ Range(ret.result) = {arg[i].team : i \in 1..Len(arg)}
    /\ \A p, q \in 1..Len(ret.result) :
         p < q => LexLess(ret.result[p], ret.result[q])

\* C19 witness: the collection of the tests, where a label occurs three
\* times and the labels first occur out of order, gives Executive, Finance,
\* Technology.
C19_Witness ==
  /\ ret.op = "getUniqueTeams" /\ arg = mockEmployees
  /\ ret.result = <<mockEmployees[1].team, mockEmployees[3].team,
                    mockEmployees[2].team>>

\* An action of this type, with any of these payloads, gives a state with
\* the employees of s.
KeepsEmployees(s, type, payloads) ==
  \A p \in payloads :
    employeeReducer(s, [type |-> type, payload |-> p]).employees = s.employees

\* The actions other than SET_EMPLOYEES and UPDATE_EMPLOYEE, one of an
\* unknown type among them, keep the employees of s.
OthersKeepEmployees(s) ==
  /\ KeepsEmployees(s, "SET_LOADING", BOOLEAN)
  /\ KeepsEmployees(s, "SET_ERROR", {FetchError})
  /\ KeepsEmployees(s, "SET_SEARCH_TERM", SearchTerms)
  /\ KeepsEmployees(s, "SET_SELECTED_TEAM", TeamSet(s.employees) \cup {<<>>})
  /\ KeepsEmployees(s, "UNKNOWN", {<<>>, Seed})

\* A step that dispatched SET_EMPLOYEES: the load, from the cache or from
\* the GET response.
LoadStep ==
  last'.op = "fetchEmployees" /\ last'.outcome \in {"cached", "loaded"}

\* A step in which the page is reloaded and the provider constructed anew.
ReloadStep == fetch = "settled" /\ fetch' = "unmounted"

\* C20: the records of state.employees change only through the load
\* (SET_EMPLOYEES) and the re-parenting (UPDATE_EMPLOYEE), within one life
\* of the provider.  In every reachable state SET_LOADING, SET_ERROR,
\* SET_SEARCH_TERM, SET_SELECTED_TEAM and an action of unknown type give a
\* state with the same employees; a step that changes employees is a load
\* or the dispatch of updateEmployeeManager; and that dispatch keeps the
\* length and changes no field of any record other than managerId.
C20_EmployeesFrame ==
  /\ []OthersKeepEmployees(state)
  /\ [][/\ (state'.employees # state.employees)
             => (LoadStep \/ DispatchStep \/ ReloadStep)
        /\ DispatchStep =>
             /\ Len(state'.employees) = Len(state.employees)
             /\ \A i \in 1..Len(state.employees) :
                  SameButManager(state'.employees[i], state.employees[i])]_vars

\* C20 witness: after a re-parenting changed a managerId, a search term
\* was set and left the employees as they were.
C20_Witness ==
  /\ last.op = "setSearchTerm"
  /\ state.searchTerm # <<>>
  /\ Len(state.employees) > 0
  /\ state.employees # Seed
  /\ inflight # <<>>

\* The fields of an employee record as the caller wrote it.
RecordFields == {"id", "name", "designation", "team", "managerId"}

\* A step in which one of the six helpers was called.
HelperCall ==
  ret = NoCall /\ ret'.op \in {"buildTree", "filterEmployees", "getUniqueTeams",
                              "findEmployeeById", "getAllReports",
                              "wouldCreateCircularReference"}

ShowsMove(employees, req) ==
  \E i \in 1..Len(employees) :
    employees[i].id = req.id /\ employees[i].managerId = req.managerId

\* C22: updateEmployeeManager updates optimistically: while a PATCH
\* request awaits its response the state already shows its move.
C22_OptimisticUpdate ==
  \A p \in 1..Len(inflight) : ShowsMove(state.employees, inflight[p])

\* A step in which a PATCH request failed and updateEmployeeManager
\* rethrew the error to handleDragEnd.
RejectStep ==
  /\ Len(inflight') < Len(inflight)
  /\ last'.op = "updateEmployeeManager"
  /\ last'.outcome = "thrown"

C24_ViewTrueImpliesFullTrue ==
  ret.op = "guardOnView" =>
    (ret.result.view = "true" => ret.result.full = "true")

\* C24: on a collection for which the guard returns, the guard on a
\* filtered view returns too and can only under-report: true on the view
\* implies true on the whole collection.
C24_ViewOnlyUnderReports ==
  (ret.op = "guardOnView" /\ ret.result.full # "loops") =>
    /\ ret.result.view # "loops"
    /\ ret.result.view = "true" => ret.result.full = "true"

\* C24 witness: a missed cycle; the filter has removed a record between
\* the two, so the view says false where the whole collection says true.
C24_Witness ==
  /\ ret.op = "guardOnView"
  /\ ret.result.view = "false"
  /\ ret.result.full = "true"
  /\ Len(filterEmployees(arg, ret.result.searchTerm,
                         ret.result.selectedTeam)) < Len(arg)

\* A step in which fetchEmployees ends the loading state.
LoadingEnds == state.loading /\ ~state'.loading

\* C25: every fetchEmployees run ends the loading state.  Loading is true
\* exactly while the GET request is awaited; provided the request settles,
\* loading becomes false again, and the step that ends it is the dispatch
\* of exactly one of SET_EMPLOYEES (the employees replaced by those of the
\* response, error untouched) and SET_ERROR (the error set, the employees
\* untouched).  With a cache entry SET_EMPLOYEES follows SET_LOADING in
\* the same run, before any await.
C25_LoadingEnds ==
  /\ [](state.loading <=> fetch = "pending")
  /\ state.loading ~> ~state.loading
  /\ [][LoadingEnds =>
          /\ fetch' = "settled"
          /\ \/ /\ last'.outcome = "loaded"
                /\ state' = [state EXCEPT !.employees = Seed,
                                          !.loading = FALSE]
             \/ /\ last'.outcome = "error"
                /\ state' = [state EXCEPT !.error = FetchError,
                                          !.loading = FALSE]]_vars
  /\ [][(last'.op = "fetchEmployees" /\ last'.outcome = "cached")
          => (~state'.loading /\ state'.employees = JSONparse(cache))]_vars

\* C25 witness: a load has ended with SET_ERROR; loading is false again.
C25_Witness ==
  /\ last.op = "fetchEmployees" /\ last.outcome = "error"
  /\ ~state.loading
  /\ state.error = FetchError
  /\ fetch = "settled"

\* A step in which the provider is mounted and fetchEmployees is run.
FetchStep == fetch = "unmounted" /\ fetch' # "unmounted"

\* C26: committed changes survive a reload.  Whenever state.employees is
\* not empty, the localStorage entry is its JSON text and parses back to
\* it; a reload of the page keeps the entry; and fetchEmployees run with
\* an entry present dispatches the parsed entry as the employees and
\* issues no GET request.
C26_CommittedChangesSurviveReload ==
  /\ [](Len(state.employees) > 0 =>
          /\ cache = JSONstringify(state.employees)
          /\ JSONparse(cache) = state.employees)
  /\ [][ReloadStep => cache' = cache]_vars
  /\ [][(FetchStep /\ cache # NoCache) =>
          /\ state'.employees = JSONparse(cache)
          /\ cache' = cache
          /\ fetch' = "settled"
          /\ last'.outcome = "cached"]_vars

\* C26 witness: a re-parenting was committed, the page was reloaded, and
\* fetchEmployees has restored the re-parented collection from the entry.
C26_Witness ==
  /\ last.op = "fetchEmployees" /\ last.outcome = "cached"
  /\ Len(state.employees) = Len(Seed)
  /\ state.employees # Seed
  /\ fetch = "settled"

\* The manager relation of r has a cycle reachable from id `start`: some
\* id that is `start` or below it is its own ancestor.
CycleBelow(r, start) ==
  \E c \in {start} \cup {r[i].id : i \in 1..Len(r)} :
    /\ c = start \/ start \in Ancestors(r, c)
    /\ c \in Ancestors(r, c)

\* getAllReports is running (entered directly, or from
\* wouldCreateCircularReference with x different from y).
LoopEntered ==
  /\ loop.pc # "idle"
  /\ ret.op = "wouldCreateCircularReference" => ret.x # ret.y

\* C27: when the manager relation has a cycle reachable from the start id
\* (a record that manages itself included), getAllReports never returns:
\* its queue is never empty, the call (and the wouldCreateCircularReference
\* that made it) has no result, and reports never shrinks and grows past
\* any length followed.
C27_CycleNeverTerminates ==
  /\ []((LoopEntered /\ CycleBelow(arg, ret.x)) =>
          /\ loop.pc = "while"
          /\ Len(loop.queue) > 0
          /\ ~ret.returns)
  /\ (LoopEntered /\ CycleBelow(arg, ret.x))
       ~> (loop.pc = "while" /\ Len(loop.reports) >= MaxReports)
  /\ [][(LoopEntered /\ CycleBelow(arg, ret.x) /\ loop' # loop)
          => Len(loop'.reports) >= Len(loop.reports)]_vars

\* C27 witness: wouldCreateCircularReference(r, x, y), x different from y,
\* is still in its loop with reports grown to the largest length followed,
\* on a collection where a report of x (not x itself) is on a cycle.
C27_Witness ==
  /\ ret.op = "wouldCreateCircularReference" /\ ret.x # ret.y
  /\ loop.pc = "while" /\ ~ret.returns
  /\ Len(loop.reports) >= MaxReports
  /\ CycleBelow(arg, ret.x)
  /\ ret.x \notin Ancestors(arg, ret.x)

\* The collection after the re-parenting of x under y is committed.
Reparented(r, x, y) ==
  UpdateEmployee(r, [id |-> x, updates |-> [managerId |-> y]])

\* Some record of r has the id.
Exists(r, id) == \E i \in 1..Len(r) : r[i].id = id

\* C28: the guard never rejects a legal move.  On a collection with unique
\* ids and an acyclic manager relation, for existing records x and y with
\* x different from y, when wouldCreateCircularReference(r, x, y) is true
\* the collection with x's managerId set to y has a cycle through x (x is
\* its own ancestor), while r itself has none.
C28_RejectedMoveWouldCloseCycle ==
  (/\ ret.op = "wouldCreateCircularReference" /\ ret.returns
   /\ UniqueIds(arg) /\ ~ManagerCycle(arg)
   /\ ret.x # ret.y /\ Exists(arg, ret.x) /\ Exists(arg, ret.y)
   /\ ret.result = TRUE)
    => /\ ret.x \in Ancestors(Reparented(arg, ret.x, ret.y), ret.x)
       /\ ret.x \notin Ancestors(arg, ret.x)

\* C28 witness: the guard has rejected the move of a record under one of
\* its reports in an acyclic collection with unique ids; carried out, the
\* move would have made the collection cyclic.
C28_Witness ==
  /\ ret.op = "wouldCreateCircularReference" /\ ret.returns
  /\ ret.result = TRUE /\ ret.x # ret.y
  /\ UniqueIds(arg) /\ ~ManagerCycle(arg)
  /\ Exists(arg, ret.x) /\ Exists(arg, ret.y)
  /\ ManagerCycle(Reparented(arg, ret.x, ret.y))

\* Every node of the forest t is a copy of a record of r.
OnlyRecordsOf(r, t) ==
  \A p \in 1..Len(ForestNodes(r, t)) :
    \E i \in 1..Len(r) : NodeRecord(t.nodes[ForestNodes(r, t)[p]]) = r[i]

\* C29: the displayed forest shows every filtered record exactly once.  For
\* a collection with unique ids and an acyclic manager relation and any
\* search term and team filter, the forest built from the filtered records
\* holds each of them once and no other record, and a filtered record is
\* a root exactly when its managerId is null or names no filtered record.
C29_ForestOfFilteredView ==
  (ret.op = "treeOfView" /\ UniqueIds(arg) /\ ~ManagerCycle(arg)) =>
    LET view == filterEmployees(arg, ret.x, ret.y)
    IN /\ Complete(view, ret.result)
       /\ OnlyRecordsOf(view, ret.result)
       /\ RootPolicy(view, ret.result)

\* C29 witness: the filter has removed the manager of a record that stays,
\* which is shown as a root with its own report below it.
C29_Witness ==
  /\ ret.op = "treeOfView" /\ UniqueIds(arg) /\ ~ManagerCycle(arg)
  /\ LET view == filterEmployees(arg, ret.x, ret.y)
     IN /\ Len(view) = 2 /\ Len(arg) = 3
        /\ view[1].managerId \in IdSet(arg) \ IdSet(view)
        /\ view[2].managerId = view[1].id
        /\ ret.result.roots = <<view[1].id>>
        /\ ret.result.nodes[view[1].id].children = <<view[2].id>>

\* The ids of the records of r without manager.
RootIds(r) == {r[i].id : i \in {j \in 1..Len(r) : r[j].managerId = Null}}

\* C30: under serialized drags the organization stays a single tree.  The
\* loaded collection has unique ids, one record without manager, managers
\* that all resolve and no cycle; after any sequence of drops that each
\* complete before the next, the ids are still unique, the same record is
\* the only one without manager, every other managerId names a record,
\* there is no cycle, and buildTree(state.employees) returns that record
\* as its single root with every record once in its tree.
C30_SingleTreeUnderSerialDrags ==
  Len(state.employees) > 0 =>
    /\ UniqueIds(state.employees)
    /\ RootIds(state.employees) = RootIds(Seed)
    /\ Cardinality(RootIds(state.employees)) = 1
    /\ \A i \in 1..Len(state.employees) :
         state.employees[i].managerId # Null =>
           state.employees[i].managerId \in IdSet(state.employees)
    /\ ~ManagerCycle(state.employees)
    /\ Len(buildTree(state.employees).roots) = 1
    /\ buildTree(state.employees).roots[1] \in RootIds(Seed)
    /\ Complete(state.employees, buildTree(state.employees))

\* C30 witness: two serialized re-parentings have been committed; the tree
\* of the whole collection is the root, one report, and that report's
\* report, and no request is awaited.
C30_Witness ==
  /\ last.op = "updateEmployeeManager" /\ last.outcome = "dispatched"
  /\ inflight = <<>>
  /\ Len(state.employees) = Len(Seed)
  /\ LET t == buildTree(state.employees)
     IN /\ Len(t.roots) = 1
        /\ Len(t.nodes[t.roots[1]].children) = 1
        /\ Len(t.nodes[t.nodes[t.roots[1]].children[1]].children) = 1
  /\ \E i \in 1..Len(Seed) :
       /\ state.employees[i].managerId # Seed[i].managerId
       /\ state.employees[i].id # last.active

====
